---- MODULE Spec2Model ----
(***************************************************************************)
(* Model of the two command-line programs of the repository:               *)
(*   program.py            English pipeline  (TextProcessor, DictionaryAPI) *)
(*   chinese_processor.py  Chinese pipeline  (ChineseTextProcessor,         *)
(*                                            ChineseDictionaryAPI)         *)
(* A run of main() is a state machine: construct the processor, process    *)
(* the input files one by one, count and rank, then write one report       *)
(* entry per ranked word, looking each word up in the remote dictionary.   *)
(*                                                                         *)
(* Words are strings.  In the Chinese variant every ASCII letter of a word *)
(* stands for one CJK character ("nh" is a two-character word, "d" a       *)
(* one-character word); upper-case stand-ins are Traditional forms.        *)
(* A text is the sequence of the segments the tokenizer will find in it.   *)
(***************************************************************************)
EXTENDS Integers, Sequences, FiniteSets, TLC

VARIABLES variant, nfiles, top, stopSrc, pc, error, stop_words, custom_filter,
          text, filtered, per_file, all_words, word_counts, top_words,
          lookups, report

vars == <<variant, nfiles, top, stopSrc, pc, error, stop_words, custom_filter,
          text, filtered, per_file, all_words, word_counts, top_words,
          lookups, report>>

\* ---------------------------------------------------------------- bounds
MaxFiles == 2
MaxWords == 2
MaxAllWords == 3
MaxTop == 2

\* ------------------------------------------------------- generic helpers
Min(a, b) == IF a <= b THEN a ELSE b
Max(a, b) == IF a >= b THEN a ELSE b
Range(s) == {s[k] : k \in DOMAIN s}
SeqsUpTo(S, n) == UNION {[1..m -> S] : m \in 0..n}
Front(s) == SubSeq(s, 1, Len(s) - 1)
Last(s) == s[Len(s)]
Occurrences(s, w) == Cardinality({k \in DOMAIN s : s[k] = w})

RECURSIVE Concat(_)
Concat(ss) == IF ss = <<>> THEN <<>> ELSE Concat(Front(ss)) \o Last(ss)

\* ------------------------------------------------------ the environment
Variants == {"english", "chinese"}

\* Segments an English text may contain: capitalised and lower-case words, a
\* word of the custom filter, and a punctuation-only run.
RawEn == {"The", "Cat", "sat", "mat", "go", "!"}
\* Segments a Chinese text may contain: a one-character word, two-character
\* words (one in Traditional form), a word of the custom filter, a non-CJK
\* character.
RawZh == {"d", "nh", "GJ", "sj", "zg", "!"}
Raw(v) == IF v = "english" THEN RawEn ELSE RawZh

\* Contents of the stopword source.  English: the NLTK stopwords corpus,
\* installed or not.  Chinese: the lines of the stopwords file, or no file.
NltkEnglish == {"the", "on"}
StopFiles == {{"nh "}}
StopSources(v) ==
    IF v = "english"
    THEN {[present |-> FALSE, lines |-> {}], [present |-> TRUE, lines |-> NltkEnglish]}
    ELSE {[present |-> FALSE, lines |-> {}]}
         \cup {[present |-> TRUE, lines |-> f] : f \in StopFiles}

\* What the HTTP request of a lookup can give.
Responses == {"ok_record", "ok_empty", "non200", "transport_error", "bad_json"}

\* ---------------------------------------------- str.lower, str.strip, ...
lower(w) ==
    CASE w = "The" -> "the"
      [] w = "THE" -> "the"
      [] w = "Cat" -> "cat"
      [] OTHER -> w

strip(l) == IF l = "nh " THEN "nh" ELSE l

\* opencc t2s: Traditional to Simplified
convert(w) == IF w = "GJ" THEN "gj" ELSE w

\* re.sub(r'[^\u4e00-\u9fff]', ' ', text): a non-CJK character becomes a space
NonCJK == {"!", " "}
re_sub(w) == IF w \in NonCJK THEN " " ELSE w

\* word_pattern.findall: maximal runs of word characters; a punctuation-only
\* run gives no token
findall(t) == SelectSeq(t, LAMBDA w : w # "!")

\* jieba.lcut: the segments, left to right (spaces come out as tokens)
lcut(t) == t

MapSeq(t, F(_)) == [k \in DOMAIN t |-> F(t[k])]

\* ------------------------------------------------------------ processors
EnglishCustomFilter == {"like", "get", "go"}
ChineseCustomFilter == {"zg", "ng", "ky"}

\* _clean_text without text.lower()
_clean_text_no_lower(t, sw, cf) ==
    SelectSeq(findall(t), LAMBDA word : word \notin sw /\ word \notin cf)

\* TextProcessor._clean_text
_clean_text(t, sw, cf) ==
    LET words == findall(MapSeq(t, lower))
    IN SelectSeq(words, LAMBDA word : word \notin sw /\ word \notin cf)

\* ChineseTextProcessor._process_content
_process_content(t, sw, cf) ==
    LET words == lcut(MapSeq(MapSeq(t, convert), re_sub))
    IN SelectSeq(words, LAMBDA word : Len(word) > 1 /\ word \notin sw /\ word \notin cf)

\* ChineseTextProcessor._load_stopwords, on a file that exists
_load_stopwords(lines) == {strip(l) : l \in lines}

process_file(v, t, sw, cf) ==
    IF v = "english" THEN _clean_text(t, sw, cf) ELSE _process_content(t, sw, cf)

\* -------------------------------------------- collections.Counter, ranking
\* a Counter that records a word once and never increments its count
RECURSIVE Counter_no_increment(_)
Counter_no_increment(words) ==
    IF words = <<>> THEN <<>>
    ELSE LET c == Counter_no_increment(Front(words))
             w == Last(words)
         IN IF \E k \in DOMAIN c : c[k][1] = w THEN c ELSE Append(c, <<w, 1>>)

\* Counter(all_words): <<word, count>> pairs in first-insertion order
RECURSIVE Counter(_)
Counter(words) ==
    IF words = <<>> THEN <<>>
    ELSE LET c == Counter(Front(words))
             w == Last(words)
         IN IF \E k \in DOMAIN c : c[k][1] = w
            THEN [k \in DOMAIN c |-> IF c[k][1] = w THEN <<w, c[k][2] + 1>> ELSE c[k]]
            ELSE Append(c, <<w, 1>>)

\* s[:n]
PySlice(s, n) ==
    IF n >= 0 THEN SubSeq(s, 1, Min(n, Len(s)))
    ELSE SubSeq(s, 1, Max(Len(s) + n, 0))

\* a descending sort that puts an item before the earlier items of equal count
RECURSIVE sorted_desc_ties_reversed(_)
sorted_desc_ties_reversed(items) ==
    IF items = <<>> THEN <<>>
    ELSE LET s == sorted_desc_ties_reversed(Front(items))
             e == Last(items)
             p == Cardinality({k \in DOMAIN s : s[k][2] > e[2]})
         IN SubSeq(s, 1, p) \o <<e>> \o SubSeq(s, p + 1, Len(s))

\* sorted(items, key=itemgetter(1), reverse=True): stable, descending count
RECURSIVE sorted_desc(_)
sorted_desc(items) ==
    IF items = <<>> THEN <<>>
    ELSE LET s == sorted_desc(Front(items))
             e == Last(items)
             p == Cardinality({k \in DOMAIN s : s[k][2] >= e[2]})
         IN SubSeq(s, 1, p) \o <<e>> \o SubSeq(s, p + 1, Len(s))

\* max(items, key=itemgetter(1)): the first item of maximal count
max_first(items) ==
    items[CHOOSE k \in DOMAIN items :
            /\ \A l \in DOMAIN items : items[l][2] <= items[k][2]
            /\ \A l \in 1..(k - 1) : items[l][2] < items[k][2]]

\* heap entries are <<count, order, index of the item>>, compared as tuples
HeapLess(e, f) == e[1] < f[1] \/ (e[1] = f[1] /\ e[2] < f[2])
HeapMin(h) == CHOOSE e \in h : \A f \in h \ {e} : HeapLess(e, f)
HeapMax(h) == CHOOSE e \in h : \A f \in h \ {e} : HeapLess(f, e)

\* the loop of nlargest over the items after the first n
RECURSIVE HeapScan(_, _, _, _)
HeapScan(items, idx, h, order) ==
    IF idx > Len(items) THEN h
    ELSE IF HeapMin(h)[1] < items[idx][2]
         THEN HeapScan(items, idx + 1,
                       (h \ {HeapMin(h)}) \cup {<<items[idx][2], order, idx>>},
                       order - 1)
         ELSE HeapScan(items, idx + 1, h, order)

\* result.sort(reverse=True), then the items of the entries
RECURSIVE HeapDrain(_, _)
HeapDrain(items, h) ==
    IF h = {} THEN <<>>
    ELSE <<items[HeapMax(h)[3]]>> \o HeapDrain(items, h \ {HeapMax(h)})

\* a ranking that sorts and slices for every n: sorted(...)[:n]
nlargest_slice_only(n, items) == PySlice(sorted_desc(items), n)

\* heapq.nlargest(n, items, key=itemgetter(1))
nlargest(n, items) ==
    IF n = 1 THEN (IF items = <<>> THEN <<>> ELSE <<max_first(items)>>)
    ELSE IF n >= Len(items) THEN PySlice(sorted_desc(items), n)
    ELSE IF n <= 0 THEN <<>>
    ELSE HeapDrain(items,
                   HeapScan(items, n + 1,
                            {<<items[k][2], 1 - k, k>> : k \in 1..n}, 0 - n))

\* Counter.most_common(n), n an integer
most_common(counts, n) == nlargest(n, counts)

\* ------------------------------------------------------------ dictionary
\* get_definitions: "record" and "empty" are the decoded JSON body (truthy
\* with definitions / falsy or without), "None" is absent, "raise" is an
\* exception leaving the method.  Invalid JSON makes response.json() raise;
\* wrapped says whether the installed requests raises its own
\* JSONDecodeError (a RequestException, requests >= 2.27) or the json
\* module's (a ValueError).
get_definitions(v, resp, wrapped) ==
    CASE resp = "transport_error" -> "None"
      [] resp = "non200" -> "None"
      [] resp = "ok_record" -> "record"
      [] resp = "ok_empty" -> "empty"
      [] resp = "bad_json" ->
            IF v = "chinese" THEN "None"
            ELSE IF wrapped THEN "None" ELSE "raise"

\* --------------------------------------------------------------- the run
Init ==
    /\ variant \in Variants
    /\ nfiles \in 1..MaxFiles
    /\ top = 0      \* not read before Count, which draws the value of --top
    /\ stopSrc \in StopSources(variant)
    /\ pc = "init"
    /\ error = "none"
    /\ stop_words = {}
    /\ custom_filter = {}
    /\ text = <<>>
    /\ filtered = <<>>
    /\ per_file = <<>>
    /\ all_words = <<>>
    /\ word_counts = <<>>
    /\ top_words = <<>>
    /\ lookups = <<>>
    /\ report = <<>>

\* TextProcessor.__init__ / ChineseTextProcessor.__init__, called by main
Construct ==
    /\ pc = "init"
    /\ IF variant = "english"
       THEN IF stopSrc.present
            THEN /\ stop_words' = stopSrc.lines
                 /\ custom_filter' = EnglishCustomFilter
                 /\ pc' = "files"
                 /\ error' = error
            ELSE \* stopwords.words(language) raises LookupError
                 /\ pc' = "aborted"
                 /\ error' = "StopwordsLookupError"
                 /\ UNCHANGED <<stop_words, custom_filter>>
       ELSE /\ stop_words' = IF stopSrc.present THEN _load_stopwords(stopSrc.lines) ELSE {}
            /\ custom_filter' = ChineseCustomFilter
            /\ pc' = "files"
            /\ error' = error
    /\ UNCHANGED <<variant, nfiles, top, stopSrc, text, filtered, per_file,
                   all_words, word_counts, top_words, lookups, report>>

\* a loop body that also adds the words of the file to the custom filter
ProcessFile_filter_grows ==
    /\ pc = "files"
    /\ Len(per_file) < nfiles
    /\ \/ \E t \in SeqsUpTo(Raw(variant), MaxWords) :
            LET words == process_file(variant, t, stop_words, custom_filter)
            IN /\ Len(all_words) + Len(words) <= MaxAllWords
               /\ text' = t
               /\ filtered' = words
               /\ per_file' = Append(per_file, words)
               /\ all_words' = all_words \o words
               /\ custom_filter' = custom_filter \cup Range(words)
               /\ UNCHANGED <<pc, error>>
       \/ /\ pc' = "aborted"
          /\ error' = "UnreadableFile"
          /\ UNCHANGED <<text, filtered, per_file, all_words, custom_filter>>
    /\ UNCHANGED <<variant, nfiles, top, stopSrc, stop_words,
                   word_counts, top_words, lookups, report>>

\* one iteration of "for file in args.files": all_words.extend(process_file(file))
ProcessFile ==
    /\ pc = "files"
    /\ Len(per_file) < nfiles
    /\ \/ \E t \in SeqsUpTo(Raw(variant), MaxWords) :
            LET words == process_file(variant, t, stop_words, custom_filter)
            IN /\ Len(all_words) + Len(words) <= MaxAllWords
               /\ text' = t
               /\ filtered' = words
               /\ per_file' = Append(per_file, words)
               /\ all_words' = all_words \o words
               /\ UNCHANGED <<pc, error>>
       \/ \* the file cannot be opened or decoded: the exception leaves main
          /\ pc' = "aborted"
          /\ error' = "UnreadableFile"
          /\ UNCHANGED <<text, filtered, per_file, all_words>>
    /\ UNCHANGED <<variant, nfiles, top, stopSrc, stop_words, custom_filter,
                   word_counts, top_words, lookups, report>>

\* word_counts = Counter(all_words); top_words = word_counts.most_common(args.top)
\* (args.top is read here for the first time: the value of --top is drawn here)
Count ==
    /\ pc = "files"
    /\ Len(per_file) = nfiles
    /\ \E n \in (0 - 1)..MaxTop :
         /\ top' = n
         /\ word_counts' = Counter(all_words)
         /\ top_words' = most_common(Counter(all_words), n)
    /\ pc' = "write"
    \* text and the filtered list were locals of the process_file calls
    /\ text' = <<>>
    /\ filtered' = <<>>
    /\ UNCHANGED <<variant, nfiles, stopSrc, error, stop_words, custom_filter,
                   per_file, all_words, lookups, report>>

\* a loop body that asks a second time when the first answer is absent
WriteEntry_retry ==
    /\ pc = "write"
    /\ Len(report) < Len(top_words)
    /\ \E resp \in Responses, wrapped \in BOOLEAN :
         LET word == top_words[Len(report) + 1][1]
             count == top_words[Len(report) + 1][2]
             data == get_definitions(variant, resp, wrapped)
         IN /\ lookups' = IF data = "None" THEN lookups \o <<word, word>>
                          ELSE Append(lookups, word)
            /\ IF data = "raise"
               THEN /\ report' = Append(report, [word |-> word, count |-> count,
                                                 definition |-> "unfinished"])
                    /\ pc' = "aborted"
                    /\ error' = "LookupRaised"
               ELSE /\ report' = Append(report, [word |-> word, count |-> count,
                                                 definition |-> IF data = "record"
                                                                THEN "definition"
                                                                ELSE "not_found"])
                    /\ UNCHANGED <<pc, error>>
    /\ UNCHANGED <<variant, nfiles, top, stopSrc, stop_words, custom_filter,
                   text, filtered, per_file, all_words, word_counts, top_words>>

\* one iteration of "for word, count in top_words"
WriteEntry ==
    /\ pc = "write"
    /\ Len(report) < Len(top_words)
    /\ \E resp \in Responses, wrapped \in BOOLEAN :
         LET word == top_words[Len(report) + 1][1]
             count == top_words[Len(report) + 1][2]
             data == get_definitions(variant, resp, wrapped)
         IN /\ lookups' = Append(lookups, word)
            /\ IF data = "raise"
               THEN /\ report' = Append(report, [word |-> word, count |-> count,
                                                 definition |-> "unfinished"])
                    /\ pc' = "aborted"
                    /\ error' = "LookupRaised"
               ELSE /\ report' = Append(report, [word |-> word, count |-> count,
                                                 definition |-> IF data = "record"
                                                                THEN "definition"
                                                                ELSE "not_found"])
                    /\ UNCHANGED <<pc, error>>
    /\ UNCHANGED <<variant, nfiles, top, stopSrc, stop_words, custom_filter,
                   text, filtered, per_file, all_words, word_counts, top_words>>

\* the loop is over, the output file is closed, main returns
Finish ==
    /\ pc = "write"
    /\ Len(report) = Len(top_words)
    /\ pc' = "done"
    /\ UNCHANGED <<variant, nfiles, top, stopSrc, error, stop_words, custom_filter,
                   text, filtered, per_file, all_words, word_counts, top_words,
                   lookups, report>>

Next == Construct \/ ProcessFile \/ Count \/ WriteEntry \/ Finish

Spec == Init /\ [][Next]_vars

TypeOK ==
    /\ pc \in {"init", "files", "write", "done", "aborted"}
    /\ error \in {"none", "StopwordsLookupError", "UnreadableFile", "LookupRaised"}
    /\ Len(per_file) <= nfiles

\* ============================================================ properties
\* the ranked list exists: Count has run
Ranked == pc \in {"write", "done"} \/ error = "LookupRaised"

\* a file was just processed: text and filtered are those of the last file
FileProcessed == per_file # <<>> /\ ~Ranked

\* all files of the run were extracted
AllExtracted == Len(per_file) = nfiles

\* the frequency table as a set of <<word, count>> pairs
Table(c) == Range(c)

\* position of the first occurrence of w in s
FirstIndex(s, w) == CHOOSE k \in DOMAIN s : s[k] = w /\ \A l \in 1..(k - 1) : s[l] # w

\* s is t with some elements removed
RECURSIVE IsSubseq(_, _)
IsSubseq(s, t) ==
    IF s = <<>> THEN TRUE
    ELSE IF t = <<>> THEN FALSE
    ELSE IF Last(s) = Last(t) THEN IsSubseq(Front(s), Front(t))
    ELSE IsSubseq(s, Front(t))

Perms(n) == {p \in [1..n -> 1..n] : \A a, b \in 1..n : p[a] = p[b] => a = b}

\* the tokens of a text before filtering
Tokens(v, t) ==
    IF v = "english" THEN findall(MapSeq(t, lower))
    ELSE lcut(MapSeq(MapSeq(t, convert), re_sub))

\* C1: a file that fails extraction never ends the run: the run goes on and
\* the final table is the table of the files that were extracted.
C1_ExtractionFailureIsolated ==
    /\ ~(pc = "aborted" /\ error = "UnreadableFile")
    /\ Ranked => Table(word_counts) = Table(Counter(Concat(per_file)))

\* C2: get_definitions gives a record or None and never raises, whatever
\* the request gives, in both variants.
C2_LookupNeverRaises ==
    /\ error # "LookupRaised"
    /\ \A k \in DOMAIN report : report[k].definition \in {"definition", "not_found"}

\* C3: when every file was extracted, a run that has ended has written one
\* complete entry per ranked word, in ranked order.
C3_RunCompletes ==
    (pc \in {"done", "aborted"} /\ AllExtracted) =>
        /\ pc = "done"
        /\ Len(report) = Len(top_words)
        /\ \A k \in DOMAIN report :
             /\ report[k].word = top_words[k][1]
             /\ report[k].count = top_words[k][2]
             /\ report[k].definition \in {"definition", "not_found"}

\* C4: after aggregation every count is the number of occurrences of the
\* word across all files, and top(n) with n >= the number of distinct words
\* has every distinct word exactly once with that count.
C4_CountingCorrect ==
    Ranked =>
        LET words == UNION {Range(per_file[f]) : f \in DOMAIN per_file}
            true_count(w) ==
                LET occ[f \in 0..Len(per_file)] ==
                        IF f = 0 THEN 0 ELSE occ[f - 1] + Occurrences(per_file[f], w)
                IN occ[Len(per_file)]
        IN /\ {word_counts[k][1] : k \in DOMAIN word_counts} = words
           /\ \A k \in DOMAIN word_counts : word_counts[k][2] = true_count(word_counts[k][1])
           /\ \A k, l \in DOMAIN word_counts : word_counts[k][1] = word_counts[l][1] => k = l
           /\ top >= Cardinality(words) =>
                /\ Len(top_words) = Cardinality(words)
                /\ \A w \in words :
                     /\ Cardinality({k \in DOMAIN top_words : top_words[k][1] = w}) = 1
                     /\ \E k \in DOMAIN top_words : top_words[k] = <<w, true_count(w)>>

C4_Witness ==
    /\ pc = "done" /\ nfiles = 2
    /\ Len(word_counts) = 2 /\ top >= 2
    /\ \E k \in DOMAIN top_words :
         /\ top_words[k][2] = 2
         /\ Occurrences(per_file[1], top_words[k][1]) = 1
         /\ Occurrences(per_file[2], top_words[k][1]) = 1

\* C5: top(n) is ordered by non-increasing count, no word left out has a
\* larger count than a word in it, and among equal counts the word first
\* met in accumulation order comes first and is the one kept at the cut;
\* [a, b, a, b] with top(2) gives [a, b].
C5_RankingOrder ==
    /\ Ranked =>
         LET In(w) == \E k \in DOMAIN top_words : top_words[k][1] = w
             first(w) == FirstIndex(all_words, w)
         IN /\ Len(top_words) = Min(Max(top, 0), Cardinality(Range(all_words)))
            /\ Range(top_words) \subseteq Range(word_counts)
            /\ \A k \in 1..(Len(top_words) - 1) :
                 \/ top_words[k][2] > top_words[k + 1][2]
                 \/ /\ top_words[k][2] = top_words[k + 1][2]
                    /\ first(top_words[k][1]) < first(top_words[k + 1][1])
            /\ \A e \in Range(word_counts) : ~In(e[1]) =>
                 \A k \in DOMAIN top_words :
                     \/ e[2] < top_words[k][2]
                     \/ /\ e[2] = top_words[k][2]
                        /\ first(top_words[k][1]) < first(e[1])
    /\ most_common(Counter(<<"a", "b", "a", "b">>), 2) = <<<<"a", 2>>, <<"b", 2>>>>

C5_Witness ==
    /\ Ranked
    /\ nfiles = 2
    /\ Len(top_words) = 2 /\ Len(word_counts) = 3
    /\ \E e \in Range(word_counts) :
         /\ e \notin Range(top_words)
         /\ e[2] = top_words[2][2]

\* C6: with --top 0 or negative the ranked list is empty, whatever the
\* table, the run ends normally, no lookup is made and no entry written.
C6_NonPositiveTop ==
    /\ (top <= 0 /\ Ranked) =>
         /\ top_words = <<>>
         /\ lookups = <<>>
         /\ report = <<>>
         /\ pc # "aborted"
    /\ \A n \in (0 - MaxTop)..0 :
         /\ most_common(word_counts, n) = <<>>
         /\ most_common(<<>>, n) = <<>>

C6_Witness ==
    /\ pc = "done"
    /\ top < 0
    /\ Len(word_counts) >= 2
    /\ report = <<>> /\ lookups = <<>>

\* C7: the filter output is exactly the tokens, in order and with their
\* multiplicities, that are in neither the stopword set nor the custom
\* filter and, for Chinese, longer than one character; empty input gives
\* empty output; English is lower-cased before matching.
C7_FilterRule ==
    /\ FileProcessed =>
         LET toks == Tokens(variant, text)
             Dropped(w) == \/ w \in stop_words
                           \/ w \in custom_filter
                           \/ (variant = "chinese" /\ Len(w) <= 1)
         IN /\ filtered = Last(per_file)
            /\ IsSubseq(filtered, toks)
            /\ \A w \in Range(toks) :
                 Occurrences(filtered, w) = IF Dropped(w) THEN 0 ELSE Occurrences(toks, w)
            /\ variant = "english" => \A w \in Range(filtered) : lower(w) = w
    /\ process_file(variant, <<>>, stop_words, custom_filter) = <<>>
    /\ _clean_text(<<"The", "Cat", "sat", "on", "THE", "mat">>, {"the", "on"}, {})
         = <<"cat", "sat", "mat">>
    /\ _process_content(<<"d", "nh", "nh", "zg">>, {}, {"zg"}) = <<"nh", "nh">>

C7_Witness ==
    /\ FileProcessed
    /\ Len(text) = 2
    /\ Len(filtered) = 1
    /\ \E w \in Range(Tokens(variant, text)) : w \in stop_words

\* C8: no lookup is made before all files are processed and the list is
\* ranked; the lookups made so far are the first words of the ranked list,
\* one each, in ranked order; a completed run has looked up every entry
\* once; the number of lookups never exceeds N.
C8_LookupOrderAndBound ==
    /\ lookups # <<>> => (Ranked /\ AllExtracted)
    /\ Len(lookups) <= Len(top_words)
    /\ \A k \in DOMAIN lookups : lookups[k] = top_words[k][1]
    /\ Len(lookups) <= Max(top, 0)
    /\ pc = "done" => Len(lookups) = Len(top_words)

C8_Witness ==
    /\ pc = "done"
    /\ Len(lookups) = 2
    /\ Len(word_counts) = 3
    /\ report[1].definition = "not_found"
    /\ report[2].definition = "definition"

\* C9: when the stopword source is absent, construction does not fail, the
\* stopword set is empty and the run goes on to the files.
C9_MissingStopwordsNonFatal ==
    (~stopSrc.present /\ pc # "init") =>
        /\ error # "StopwordsLookupError"
        /\ stop_words = {}

\* C10: the final table is the same for every order of the files; the order
\* changes at most which of the equal-count words come first in top(n); the
\* stopword set and custom filter are those built at construction, so what
\* a file contributes does not depend on the files before it.
C10_FileOrderIndependent ==
    /\ Ranked =>
         \A p \in Perms(Len(per_file)) :
            LET other == Counter(Concat([k \in DOMAIN per_file |-> per_file[p[k]]]))
                ranked == most_common(other, top)
            IN /\ Table(other) = Table(word_counts)
               /\ [k \in DOMAIN ranked |-> ranked[k][2]]
                    = [k \in DOMAIN top_words |-> top_words[k][2]]
    /\ pc \in {"files", "write", "done"} =>
         /\ custom_filter = IF variant = "english" THEN EnglishCustomFilter
                            ELSE ChineseCustomFilter
         /\ stop_words = IF stopSrc.present THEN {strip(l) : l \in stopSrc.lines} ELSE {}
    /\ FileProcessed =>
         filtered = process_file(variant, text,
                                 IF stopSrc.present THEN {strip(l) : l \in stopSrc.lines} ELSE {},
                                 IF variant = "english" THEN EnglishCustomFilter
                                 ELSE ChineseCustomFilter)

C10_Witness ==
    /\ pc = "done"
    /\ nfiles = 2
    /\ per_file[1] # per_file[2]
    /\ Len(per_file[1]) + Len(per_file[2]) = 3
    /\ Range(per_file[1]) \cap Range(per_file[2]) # {}
    /\ word_counts # Counter(per_file[2] \o per_file[1])

====
